---- MODULE Spec2Model ----
(***************************************************************************)
(* lntxbot: the LNURL handlers (handleLNURL, handleLNURLPayConfirmation,   *)
(* lnurlpayFetchInvoiceAndPay), the background task that waits for the     *)
(* payment, and the payment confirmation broker of helpers.go              *)
(* (waitPaymentSuccess / resolveWaitingPaymentSuccess over the concurrent  *)
(* map waitingPaymentSuccesses).                                           *)
(***************************************************************************)
EXTENDS Integers, Sequences, FiniteSets, TLC

VARIABLES
    waitingPaymentSuccesses, \* the concurrent map: payment hash -> sequence of channels
    gpc,                     \* confirmation goroutine g: where it stands
    gcap,                    \* what goroutine g's closure captured (hash, success action, ...)
    gpreimage,               \* the value goroutine g received on its channel ({} before)
    gout,                    \* what goroutine g sent to the user, in order
    rpc,                     \* resolveWaitingPaymentSuccess call r: where it stands
    rarg,                    \* its arguments (hash, preimage)
    rchans,                  \* its local `chans`: the slice Get returned
    ri,                      \* its loop index into chans
    rseen,                   \* history: the channels whose receiver was parked when r's Get ran
    roverlap,                \* history: another call for the same hash ran during call r
    gtried,                  \* history: a resolver's select has run on goroutine g's channel
    rds,                     \* the pending-reply cache: key -> value
    call,                    \* the latest handler invocation: its inputs and its effects in order
    ncalls,                  \* how many handler invocations there have been
    ledger,                  \* lightning.account_txn: the rows of the proxy account
    err,                     \* the package-level err that checkProxyBalance and getBalance assign
    ppc,                     \* the checkProxyBalance call: where it stands
    proxybalance,            \* its local proxybalance
    pres,                    \* the error it returned
    pquery,                  \* history: how its own query went (failed, and the ledger it read)
    poverlap,                \* history: err was assigned by another call during this call
    bpc,                     \* the getBalance call: where it stands
    nwrites,                 \* how many times a ledger row was changed
    dollarPrice,             \* the package-level dollarPrice: rate and lastUpdate
    now,                     \* the clock, in half hours
    dpc,                     \* the getDollarRate call: where it stands
    dfetches,                \* how many times this call fetched the ticker
    dres,                    \* what it returned: rate and err
    dfailed                  \* history: a fetch of this call failed

proxyVars == <<ledger, err, ppc, proxybalance, pres, pquery, poverlap, bpc, nwrites>>
rateVars == <<dollarPrice, now, dpc, dfetches, dres, dfailed>>
helperVars == <<proxyVars, rateVars>>

vars == <<waitingPaymentSuccesses, gpc, gcap, gpreimage, gout, gtried,
          rpc, rarg, rchans, ri, rseen, roverlap, rds, call, ncalls, helperVars>>

brokerVars == <<waitingPaymentSuccesses, gpc, gcap, gpreimage, gout, gtried,
                rpc, rarg, rchans, ri, rseen, roverlap>>

----------------------------------------------------------------------------
(* Bounds of the model *)

NumGoroutines == 2
NumResolves == 1
MaxCalls == 2

Goroutines == 1..NumGoroutines
Resolves == 1..NumResolves

Hashes == {"h1", "h2"}
Preimages == {"p1", "p2"}


UserIds == {1, 2}
Metadatas == {"m1", "m2"}
Callbacks == {"https://a.com/cb", "https://b.org/cb"}
LnurlTexts == {"lnurl1aaa", "https://b.org/lnurlp"}
Msats == {0, 1000, 2999, 3000}

\* payWithoutPromptIf + 3000 (part_000:145)
GraceMsat == 3000

----------------------------------------------------------------------------
(* Pure helpers *)

\* sha256.Sum256, modelled as a collision-free constructor over the data it
\* digests; helpers.go calculateHash renders the digest as lowercase hex, which
\* is one-to-one.
sha256Sum256(data) == <<"sha256", data>>

calculateHash(data) == sha256Sum256(data)

\* url.Parse(callback).Host for the callback URLs of the model.
urlHost(callback) ==
    CASE callback = "https://a.com/cb" -> "a.com"
      [] callback = "https://b.org/cb" -> "b.org"
      [] OTHER -> "<unknown>"

\* lnurl.LNURLEncode: a bech32 lnurl is returned as it is, a plain URL is
\* bech32-encoded.
LNURLEncode(text) ==
    CASE text = "https://b.org/lnurlp" -> "lnurl1bbb"
      [] OTHER -> text

\* decodepay.Decodepay: a bolt11 string of the model carries what it decodes
\* to; a malformed string fails to decode.
Decodepay(pr) ==
    IF pr.wellformed
    THEN [err |-> FALSE, MSatoshi |-> pr.msat, DescriptionHash |-> pr.hhash]
    ELSE [err |-> TRUE, MSatoshi |-> 0, DescriptionHash |-> <<>>]

(* The effects of a handler, in the order the code performs them. *)
EvHttp(url, query) == [op |-> "http", url |-> url, query |-> query]
EvNotify(kind, data) == [op |-> "notify", kind |-> kind, data |-> data, replyTo |-> 0]
\* EvNotifyAsReply that replies to no message
EvNotifyAsReplyToNone(kind, data, replyTo) ==
    [op |-> "notify", kind |-> kind, data |-> data, replyTo |-> 0]
EvNotifyAsReply(kind, data, replyTo) ==
    [op |-> "notify", kind |-> kind, data |-> data, replyTo |-> replyTo]
EvSendMessage(text, id) == [op |-> "sendMessage", text |-> text, id |-> id]
EvDeleteMessage(id) == [op |-> "deleteMessage", id |-> id]
EvPayInvoice(messageId, pr) == [op |-> "payInvoice", messageId |-> messageId, pr |-> pr]
EvGo(cap) == [op |-> "go", cap |-> cap]
EvTrack(event, data) == [op |-> "track", event |-> event, data |-> data]
EvMakeInvoice(args) == [op |-> "makeInvoice", args |-> args]
EvTgsend(chattable) == [op |-> "tgsend", chattable |-> chattable]
\* EvRdsSet without expiry
EvRdsSetNoExpiry(key, value, ttl) == [op |-> "rdsSet", key |-> key, value |-> value, ttl |-> 0]
EvRdsSet(key, value, ttl) == [op |-> "rdsSet", key |-> key, value |-> value, ttl |-> ttl]

\* part_000:286: the invoice does not commit to the metadata.
wrongDescriptionHash(inv, metadata) == inv.DescriptionHash # calculateHash(metadata)

\* wrongAmount with the comparison weakened: an invoice for more passes
wrongAmountBelow(inv, msats) == inv.MSatoshi < msats

\* part_000:291: the invoice is not for the requested amount.
wrongAmount(inv, msats) == inv.MSatoshi # msats

\* callbackRefused that lets an answer through when it carries an invoice
callbackRefusedWithoutInvoice(res) == res.Status = "ERROR" /\ ~res.PR.wellformed

\* part_000:264: the callback answered {status: "ERROR"}
callbackRefused(res) == res.Status = "ERROR"

\* part_000:241-360. e is what the outside answers: e.cb the callback's HTTP
\* response, e.sentId the id of the message sendMessage sent, e.pay what
\* payInvoice returns. The result is the effects in order and the closures of
\* the goroutines started (none or one).
lnurlpayFetchInvoiceAndPay(u, msats, callback, metadata, encodedLnurl0, messageId, e) ==
    LET encodedLnurl == LNURLEncode(encodedLnurl0)
        get == <<EvHttp(callback, [amount |-> msats])>>
        stop(ev) == [trace |-> get \o <<ev>>, spawn |-> <<>>]
        inv == Decodepay(e.cb.PR)
    IN  IF e.cb.err
        THEN stop(EvNotify("ERROR", [Err |-> "transport"]))
        ELSE IF e.cb.status >= 300
        THEN stop(EvNotify("ERROR", [Err |-> "Got status", status |-> e.cb.status,
                                     callback |-> callback]))
        ELSE IF callbackRefused(e.cb)
        THEN stop(EvNotify("LNURLERROR", [Host |-> urlHost(callback),
                                          Reason |-> e.cb.Reason]))
        ELSE IF inv.err
        THEN stop(EvNotify("ERROR", [Err |-> "decodepay"]))
        ELSE IF wrongDescriptionHash(inv, metadata)
        THEN stop(EvNotify("ERROR", [Err |-> "Got invoice with wrong description_hash"]))
        ELSE IF wrongAmount(inv, msats)
        THEN stop(EvNotify("ERROR", [Err |-> "Got invoice with wrong amount."]))
        ELSE
            LET processing == <<EvSendMessage("PROCESSING", e.sentId),
                                EvPayInvoice(messageId, e.cb.PR)>>
                cap == [hash |-> e.pay.hash, u |-> u, messageId |-> messageId,
                        callback |-> callback, metadata |-> metadata,
                        encodedLnurl |-> encodedLnurl,
                        SuccessAction |-> e.cb.SuccessAction]
            IN  IF ~e.pay.err
                THEN [trace |-> get \o processing \o
                                <<EvDeleteMessage(e.sentId), EvGo(cap)>>,
                      spawn |-> <<cap>>]
                ELSE [trace |-> get \o processing \o
                                <<EvNotifyAsReply("ERROR", [Err |-> "payInvoice"], e.sentId)>>,
                      spawn |-> <<>>]


\* s.BotToken, the bot's secret
BotToken == "bottoken"

\* time.Hour*1, in seconds (part_000:222)
PendingTTL == 3600

\* part_000:131-134
fixedAmountOf(params) ==
    IF params.MaxSendable = params.MinSendable THEN params.MaxSendable ELSE 0

\* payWithoutPrompt with <= for <
payWithoutPromptUpTo(fixedAmount, opts) ==
    /\ fixedAmount > 0
    /\ opts.payWithoutPromptIf # {}
    /\ \E th \in opts.payWithoutPromptIf : fixedAmount <= th + GraceMsat

\* part_000:143-145: pay without asking. payWithoutPromptIf is a pointer,
\* modelled as the empty set (nil) or the set of the value it points to.
payWithoutPrompt(fixedAmount, opts) ==
    /\ fixedAmount > 0
    /\ opts.payWithoutPromptIf # {}
    /\ \E th \in opts.payWithoutPromptIf : fixedAmount < th + GraceMsat

\* lnurlKeySeed that also digests the challenge
lnurlKeySeedWithK1(params, u) ==
    sha256Sum256(<<"lnurlkeyseed", params.Host, u, BotToken, params.K1>>)

\* part_000:47: sha256 of "lnurlkeyseed:<host>:<user id>:<bot token>"
lnurlKeySeed(params, u) == sha256Sum256(<<"lnurlkeyseed", params.Host, u, BotToken>>)

\* authSucceeded in which loginSilently leaves the tracking event
authSucceededStillTracks(params, pubkey, opts) ==
    IF ~opts.loginSilently
    THEN <<EvNotify("LNURLAUTHSUCCESS", [Host |-> params.Host, PublicKey |-> pubkey]),
           EvTrack("lnurl-auth", [domain |-> params.Host])>>
    ELSE <<EvTrack("lnurl-auth", [domain |-> params.Host])>>

\* part_000:85-92: what follows an accepted signature
authSucceeded(params, pubkey, opts) ==
    IF ~opts.loginSilently
    THEN <<EvNotify("LNURLAUTHSUCCESS", [Host |-> params.Host, PublicKey |-> pubkey]),
           EvTrack("lnurl-auth", [domain |-> params.Host])>>
    ELSE <<>>

\* part_000:45-92, the lnurl-auth case
handleLNURLAuth(u, params, opts, e) ==
    LET seedhash == lnurlKeySeed(params, u)
        sk == <<"sk", seedhash>>
        pk == <<"pk", seedhash>>
        signature == <<"sig", sk, params.K1>>
        pubkey == pk
        get == <<EvHttp(params.Callback, [sig |-> signature, key |-> pubkey])>>
    IN  IF e.k1 = "badhex"
        THEN <<EvNotify("ERROR", [Err |-> "hex"])>>
        ELSE IF e.k1 = "unsignable"
        THEN <<EvNotify("ERROR", [Err |-> "sign"])>>
        ELSE IF e.cb.err
        THEN get \o <<EvNotify("ERROR", [Err |-> "transport"])>>
        ELSE IF e.cb.status >= 300
        THEN get \o <<EvNotify("ERROR", [Err |-> "Got status", status |-> e.cb.status,
                                         callback |-> params.Callback])>>
        ELSE IF e.cb.Status = "ERROR"
        THEN get \o <<EvNotify("LNURLERROR", [Host |-> params.Host,
                                              Reason |-> e.cb.Reason])>>
        ELSE get \o authSucceeded(params, pubkey, opts)

\* part_000:93-128, the lnurl-withdraw case
handleLNURLWithdraw(u, params, opts, e) ==
    LET mk == <<EvMakeInvoice([IgnoreInvoiceSizeLimit |-> TRUE,
                               Msatoshi |-> params.MaxWithdrawable,
                               Desc |-> params.DefaultDescription,
                               MessageId |-> opts.messageId,
                               SkipQR |-> TRUE])>>
        get == <<EvHttp(params.Callback, [k1 |-> params.K1, pr |-> e.bolt11])>>
    IN  IF e.mkErr
        THEN mk \o <<EvNotify("ERROR", [Err |-> "makeInvoice"])>>
        ELSE IF e.cb.err
        THEN mk \o get \o <<EvNotify("ERROR", [Err |-> "transport"])>>
        ELSE IF e.cb.status >= 300
        THEN mk \o get \o <<EvNotify("ERROR", [Err |-> "Got status", status |-> e.cb.status,
                                               callback |-> params.Callback])>>
        ELSE IF e.cb.Status = "ERROR"
        THEN mk \o get \o <<EvNotify("LNURLERROR", [Host |-> urlHost(params.Callback),
                                                    Reason |-> e.cb.Reason])>>
        ELSE mk \o get \o <<EvTrack("lnurl-withdraw", [sats |-> params.MaxWithdrawable])>>

\* part_000:129-223, the lnurl-pay case
handleLNURLPay(u, lnurltext, params, opts, e) ==
    LET fixedAmount == fixedAmountOf(params)
        track == <<EvTrack("lnurl-pay", [domain |-> urlHost(params.Callback),
                                         fixed |-> fixedAmount,
                                         max |-> params.MaxSendable,
                                         min |-> params.MinSendable])>>
        chattable == [kind |-> "LNURLPAYPROMPT",
                      ReplyToMessageID |-> opts.messageId,
                      markup |-> IF fixedAmount > 0
                                 THEN [type |-> "buttons", lnurlpay |-> fixedAmount]
                                 ELSE [type |-> "ForceReply", lnurlpay |-> 0],
                      photo |-> params.image,
                      Domain |-> urlHost(params.Callback),
                      FixedAmount |-> fixedAmount,
                      Max |-> params.MaxSendable,
                      Min |-> params.MinSendable]
        data == [type |-> "lnurlpay", metadata |-> params.EncodedMetadata,
                 url |-> params.Callback, lnurl |-> lnurltext]
    IN  IF payWithoutPrompt(fixedAmount, opts)
        THEN LET r == lnurlpayFetchInvoiceAndPay(u, fixedAmount, params.Callback,
                          params.EncodedMetadata, lnurltext, opts.messageId, e)
             IN  [trace |-> track \o r.trace, spawn |-> r.spawn]
        ELSE IF e.sendErr
        THEN [trace |-> track \o <<EvTgsend(chattable)>>, spawn |-> <<>>]
        ELSE [trace |-> track \o <<EvTgsend(chattable),
                                   EvRdsSet(<<"reply", u, e.sentId>>, data, PendingTTL)>>,
              spawn |-> <<>>]

\* part_000:26-229. e.fetch is what lnurl.HandleLNURL(lnurltext) returns.
handleLNURL(u, lnurltext, opts, e) ==
    LET only(trace) == [trace |-> trace, spawn |-> <<>>]
    IN  CASE e.fetch.tag = "lnurlerror" ->
               only(<<EvNotify("LNURLERROR", [Host |-> e.fetch.Host,
                                              Reason |-> e.fetch.Reason])>>)
          [] e.fetch.tag = "error" ->
               only(<<EvNotify("ERROR", [Err |-> "failed to fetch lnurl params"])>>)
          [] e.fetch.tag = "login" -> only(handleLNURLAuth(u, e.fetch, opts, e))
          [] e.fetch.tag = "withdrawRequest" -> only(handleLNURLWithdraw(u, e.fetch, opts, e))
          [] e.fetch.tag = "payRequest" -> handleLNURLPay(u, lnurltext, e.fetch, opts, e)
          [] OTHER ->
               only(<<EvNotifyAsReply("LNURLUNSUPPORTED", [none |-> TRUE], opts.messageId)>>)

\* part_000:231-239. data is the cached JSON object, read with gjson: a key
\* that is absent reads as the empty string.
gjsonGetString(data, key) ==
    IF key \in DOMAIN data THEN data[key] ELSE ""

\* handleLNURLPayConfirmation that reads the callback under the key "callback"
handleLNURLPayConfirmationCallbackKey(u, msats, data, messageId, e) ==
    LET callback == gjsonGetString(data, "callback")
        metadata == gjsonGetString(data, "metadata")
        encodedLnurl == gjsonGetString(data, "lnurl")
    IN  lnurlpayFetchInvoiceAndPay(u, msats, callback, metadata, encodedLnurl, messageId, e)

handleLNURLPayConfirmation(u, msats, data, messageId, e) ==
    LET callback == gjsonGetString(data, "url")
        metadata == gjsonGetString(data, "metadata")
        encodedLnurl == gjsonGetString(data, "lnurl")
    IN  lnurlpayFetchInvoiceAndPay(u, msats, callback, metadata, encodedLnurl, messageId, e)


----------------------------------------------------------------------------
(* What the outside can answer *)

NoPR == [wellformed |-> FALSE, msat |-> 0, hhash |-> <<>>]

InvoiceMsats == {1000, 3000}

\* the bolt11 strings a callback can return: malformed, or an invoice with
\* any amount and any (or no) description hash
Bolt11s ==
    {NoPR} \cup
    [wellformed : {TRUE}, msat : InvoiceMsats,
     hhash : {<<>>} \cup {sha256Sum256(m) : m \in Metadatas}]

SuccessActions == {{}, {"message"}}

CbFailed == [err |-> TRUE, status |-> 0, Status |-> "", Reason |-> "",
             PR |-> NoPR, SuccessAction |-> {}]
CbNotFound == [err |-> FALSE, status |-> 404, Status |-> "", Reason |-> "",
               PR |-> NoPR, SuccessAction |-> {}]
CbError == [err |-> FALSE, status |-> 200, Status |-> "ERROR", Reason |-> "no balance",
            PR |-> NoPR, SuccessAction |-> {}]
CbOK == [err |-> FALSE, status |-> 200, Status |-> "OK", Reason |-> "",
         PR |-> NoPR, SuccessAction |-> {}]

\* an ERROR answer that carries a payable invoice all the same
CbErrorInvoice ==
    [CbError EXCEPT !.PR = [wellformed |-> TRUE, msat |-> 1000, hhash |-> sha256Sum256("m1")]]

\* the answers to the auth and withdraw callbacks
PlainResponses == {CbFailed, CbNotFound, CbError, CbOK}

\* the answers to the pay callback
PayResponses ==
    {CbFailed, CbNotFound, CbError, CbErrorInvoice} \cup
    [err : {FALSE}, status : {200}, Status : {"OK"}, Reason : {""},
     PR : Bolt11s, SuccessAction : SuccessActions]

\* what lnurl.HandleLNURL can return
FetchFailures ==
    {[tag |-> "lnurlerror", Host |-> "a.com", Reason |-> "expired"],
     [tag |-> "error"]}
AuthParams ==
    {[tag |-> "login", Host |-> "a.com", K1 |-> "k1", Callback |-> "https://a.com/cb"],
     [tag |-> "login", Host |-> "b.org", K1 |-> "k1", Callback |-> "https://b.org/cb"]}
WithdrawParams ==
    {[tag |-> "withdrawRequest", Callback |-> "https://a.com/cb", K1 |-> "k1",
      MaxWithdrawable |-> 3000, DefaultDescription |-> "desc"]}
Sendables == {<<0, 0>>, <<1000, 1000>>, <<2999, 2999>>, <<3000, 3000>>, <<1000, 3000>>}

\* The service an lnurl text points to: its pay callback, its metadata, and
\* whether the metadata carries an image.
Offer(lnurltext) ==
    IF lnurltext = "lnurl1aaa"
    THEN [Callback |-> "https://a.com/cb", EncodedMetadata |-> "m1", image |-> TRUE]
    ELSE [Callback |-> "https://b.org/cb", EncodedMetadata |-> "m2", image |-> FALSE]

PayParams(lnurltext) ==
    {[tag |-> "payRequest", Callback |-> Offer(lnurltext).Callback,
      EncodedMetadata |-> Offer(lnurltext).EncodedMetadata,
      MinSendable |-> mm[1], MaxSendable |-> mm[2], image |-> Offer(lnurltext).image]
        : mm \in Sendables}
OtherParams == {[tag |-> "channelRequest"]}

MessageIds == {7}

OptsSet ==
    [messageId : MessageIds, loginSilently : BOOLEAN, payWithoutPromptIf : {{}}] \cup
    [messageId : MessageIds, loginSilently : {FALSE}, payWithoutPromptIf : {{0}, {1}}]

PayFailed == [err |-> TRUE, hash |-> ""]
PayResults == {PayFailed} \cup [err : {FALSE}, hash : Hashes]

DefaultEnv ==
    [fetch |-> [tag |-> "error"], k1 |-> "ok", mkErr |-> FALSE, bolt11 |-> "lnbc1",
     cb |-> CbOK, sendErr |-> FALSE, sentId |-> 21, pay |-> PayFailed]

\* the answers the settlement flow can get
SettleEnvs ==
    {[DefaultEnv EXCEPT !.cb = c, !.pay = p] : c \in PayResponses, p \in PayResults}

\* the answers handleLNURL(lnurltext) can get
Envs(lnurltext) ==
    {[DefaultEnv EXCEPT !.fetch = f] : f \in FetchFailures \cup OtherParams}
    \cup {[DefaultEnv EXCEPT !.fetch = f, !.k1 = k]
            : f \in AuthParams, k \in {"badhex", "unsignable"}}
    \cup {[DefaultEnv EXCEPT !.fetch = f, !.cb = c] : f \in AuthParams, c \in PlainResponses}
    \cup {[DefaultEnv EXCEPT !.fetch = f, !.mkErr = TRUE] : f \in WithdrawParams}
    \cup {[DefaultEnv EXCEPT !.fetch = f, !.cb = c]
            : f \in WithdrawParams, c \in PlainResponses}
    \cup {[DefaultEnv EXCEPT !.fetch = f, !.sendErr = b]
            : f \in PayParams(lnurltext), b \in BOOLEAN}
    \cup {[e EXCEPT !.fetch = f] : f \in PayParams(lnurltext), e \in SettleEnvs}

\* An answer the handler never asked for is left at its default, so that one
\* run of the handler is one call.
HasOp(trace, op) == \E i \in 1..Len(trace) : trace[i].op = op
Consumed(r, e) ==
    /\ ~HasOp(r.trace, "http") => e.cb = CbOK
    /\ ~HasOp(r.trace, "payInvoice") => e.pay = PayFailed
    /\ ~HasOp(r.trace, "go") => e.cb.SuccessAction = {}
    /\ ~HasOp(r.trace, "tgsend") => ~e.sendErr
    /\ ~HasOp(r.trace, "makeInvoice") => ~e.mkErr

\* the inputs of the runs in which a fixed-amount offer is paid without a prompt
\* and the payment is submitted
FastOpts == [messageId |-> 7, loginSilently |-> FALSE, payWithoutPromptIf |-> {0}]
FastEnvs ==
    {[DefaultEnv EXCEPT
        !.fetch = [tag |-> "payRequest", Callback |-> Offer("lnurl1aaa").Callback,
                   EncodedMetadata |-> "m1", MinSendable |-> 1000, MaxSendable |-> 1000,
                   image |-> TRUE],
        !.cb = [err |-> FALSE, status |-> 200, Status |-> "OK", Reason |-> "",
                PR |-> [wellformed |-> TRUE, msat |-> 1000, hhash |-> sha256Sum256("m1")],
                SuccessAction |-> sa],
        !.pay = [err |-> FALSE, hash |-> h]] : sa \in SuccessActions, h \in Hashes}


----------------------------------------------------------------------------
(* helpers.go: the ledger check of the proxy account and the dollar rate *)

\* a nil error
nil == "nil"

\* the ledger of the model: at most MaxEntries rows of the proxy account,
\* changed at most MaxWrites times
MaxEntries == 2
MaxWrites == 1
Amounts == -1..1
Fees == 0..1
Rows == [amount : Amounts, fees : Fees]
Ledgers == UNION {[1..n -> Rows] : n \in 0..MaxEntries}

\* SQL sum(col) over the selected rows: NULL (the empty set) when there is no
\* row, else the set of the one total
RECURSIVE sqlSum(_, _)
sqlSum(rows, col) ==
    IF rows = <<>> THEN {}
    ELSE LET rest == sqlSum(Tail(rows), col)
         IN  IF rest = {} THEN {Head(rows)[col]}
             ELSE {Head(rows)[col] + t : t \in rest}

\* SQL coalesce(x, d)
coalesce(x, d) == IF x = {} THEN d ELSE CHOOSE v \in x : TRUE

\* proxyBalance that forgets the fees
proxyBalanceAmountsOnly(rows) == coalesce(sqlSum(rows, "amount"), 0)

\* helpers.go:441, the balance the query computes. The amounts of the model
\* are far inside numeric(13), so the cast changes nothing.
proxyBalance(rows) ==
    coalesce(sqlSum(rows, "amount"), 0) - coalesce(sqlSum(rows, "fees"), 0)

NoQuery == [failed |-> FALSE, rows |-> <<>>]

\* time.Hour in the unit of the clock (helpers.go:187)
Hour == 2
\* the clock stops at MaxNow; one call fetches the ticker at most MaxFetches times
MaxNow == 4
MaxFetches == 3

\* A float64 of getDollarRate: zero, a finite value of the given sign whose
\* magnitude is 10^11 / per, an infinity of the given sign, or NaN.
FloatZero == [class |-> "zero", sign |-> 1, per |-> 0]
FloatNaN == [class |-> "nan", sign |-> 1, per |-> 0]
FloatInf(sign) == [class |-> "inf", sign |-> sign, per |-> 0]

\* r > 0 on float64: false for zero, for negative values and for NaN
Positive(r) == r.class \in {"finite", "inf"} /\ r.sign = 1

\* what the ticker can put in "last"
Lasts == {"40000", "20000", "0", "-20000", "NaN", "Inf", "abc"}

\* strconv.ParseFloat(srate, 64) on the strings of the model
ParseFloat(srate) ==
    CASE srate = "40000" -> [err |-> FALSE, class |-> "finite", v |-> 40000]
      [] srate = "20000" -> [err |-> FALSE, class |-> "finite", v |-> 20000]
      [] srate = "0" -> [err |-> FALSE, class |-> "finite", v |-> 0]
      [] srate = "-20000" -> [err |-> FALSE, class |-> "finite", v |-> 0 - 20000]
      [] srate = "NaN" -> [err |-> FALSE, class |-> "nan", v |-> 0]
      [] srate = "Inf" -> [err |-> FALSE, class |-> "inf", v |-> 1]
      [] OTHER -> [err |-> TRUE, class |-> "finite", v |-> 0]

\* helpers.go:208: 1 / (btcrate / 100000000000) in float64 arithmetic
rateOf(btcrate) ==
    IF btcrate.class = "nan" THEN FloatNaN
    ELSE IF btcrate.class = "inf" THEN FloatZero
    ELSE IF btcrate.v = 0 THEN FloatInf(1)
    ELSE IF btcrate.v > 0 THEN [class |-> "finite", sign |-> 1, per |-> btcrate.v]
    ELSE [class |-> "finite", sign |-> 0 - 1, per |-> 0 - btcrate.v]

\* what http.Get of the ticker and the reading of its body can give
TickerOK == [last : Lasts, err : {FALSE}, status : {200}, readErr : {FALSE}]
TickerResponses ==
    {[last |-> "", err |-> TRUE, status |-> 0, readErr |-> FALSE],
     [last |-> "", err |-> FALSE, status |-> 500, readErr |-> FALSE],
     [last |-> "", err |-> FALSE, status |-> 200, readErr |-> TRUE]} \cup TickerOK

NoRes == [rate |-> FloatZero, err |-> "none"]

----------------------------------------------------------------------------
(* The state *)

Range(seq) == {seq[i] : i \in 1..Len(seq)}

NoCap == [hash |-> "", u |-> 0, messageId |-> 0, callback |-> "", metadata |-> "",
          encodedLnurl |-> "", SuccessAction |-> {}]
NoArg == [hash |-> "", preimage |-> ""]
NoCall == [fn |-> "none", u |-> 0, lnurltext |-> "", opts |-> FastOpts, msats |-> 0,
           data |-> <<>>, env |-> DefaultEnv, trace |-> <<>>]

InitLNURL ==
    /\ waitingPaymentSuccesses = <<>>
    /\ gpc = [g \in Goroutines |-> "none"]
    /\ gcap = [g \in Goroutines |-> NoCap]
    /\ gpreimage = [g \in Goroutines |-> ""]
    /\ gout = [g \in Goroutines |-> <<>>]
    /\ rpc = [r \in Resolves |-> "idle"]
    /\ rarg = [r \in Resolves |-> NoArg]
    /\ rchans = [r \in Resolves |-> <<>>]
    /\ ri = [r \in Resolves |-> 0]
    /\ rseen = [r \in Resolves |-> {}]
    /\ roverlap = [r \in Resolves |-> FALSE]
    /\ gtried = [g \in Goroutines |-> FALSE]
    /\ rds = <<>>
    /\ call = NoCall
    /\ ncalls = 0

\* no call of checkProxyBalance or getBalance has begun
InitProxy ==
    /\ err = nil
    /\ ppc = "idle"
    /\ proxybalance = 0
    /\ pres = "none"
    /\ pquery = NoQuery
    /\ poverlap = FALSE
    /\ bpc = "idle"
    /\ nwrites = 0

\* helpers.go:33-36: dollarPrice = {time.Now(), 0}
InitRate ==
    /\ dollarPrice = [lastUpdate |-> 0, rate |-> FloatZero]
    /\ now = 0
    /\ dpc = "idle"
    /\ dfetches = 0
    /\ dres = NoRes
    /\ dfailed = FALSE

Init == InitLNURL /\ InitProxy /\ ledger = <<>> /\ InitRate

\* the same, over any ledger of the proxy account
InitLedger == InitLNURL /\ InitProxy /\ ledger \in Ledgers /\ InitRate

----------------------------------------------------------------------------
(* The handlers *)

\* rds.Set of every rdsSet effect of the trace, in order
RECURSIVE rdsAfter(_, _)
rdsAfter(store, trace) ==
    IF trace = <<>> THEN store
    ELSE LET ev == Head(trace)
             next == IF ev.op = "rdsSet"
                     THEN [k \in DOMAIN store \cup {ev.key} |->
                             IF k = ev.key THEN [value |-> ev.value, ttl |-> ev.ttl]
                             ELSE store[k]]
                     ELSE store
         IN  rdsAfter(next, Tail(trace))

FreeGoroutines == {g \in Goroutines : gpc[g] = "none"}

\* What a handler's run leaves behind: the cache entries it set and the
\* goroutine it started (go func() at part_000:306).
Effects(r) ==
    /\ ncalls < MaxCalls
    /\ ncalls' = ncalls + 1
    /\ rds' = rdsAfter(rds, r.trace)
    /\ IF r.spawn = <<>>
       THEN UNCHANGED <<gpc, gcap>>
       ELSE /\ FreeGoroutines # {}
            /\ LET g == CHOOSE x \in FreeGoroutines : \A y \in FreeGoroutines : x <= y
               IN  /\ gpc' = [gpc EXCEPT ![g] = "spawned"]
                   /\ gcap' = [gcap EXCEPT ![g] = r.spawn[1]]
    /\ UNCHANGED <<waitingPaymentSuccesses, gpreimage, gout, gtried, rpc, rarg, rchans, ri,
                   rseen, roverlap, helperVars>>

\* A handler runs from its call to its return in one step: it shares nothing
\* with other tasks but the cache it sets and the goroutine it starts. call
\* holds the run until the handler returns.
Ran(fn, u, lnurltext, opts, msats, data, e, r) ==
    /\ call = NoCall
    /\ Consumed(r, e)
    /\ call' = [fn |-> fn, u |-> u, lnurltext |-> lnurltext, opts |-> opts,
                msats |-> msats, data |-> data, env |-> e, trace |-> r.trace]
    /\ Effects(r)

\* handleLNURL(u, lnurltext, opts), part_000:26
HandleLNURL ==
    \E u \in UserIds, lnurltext \in LnurlTexts, opts \in OptsSet :
      \E e \in Envs(lnurltext) :
        Ran("handleLNURL", u, lnurltext, opts, 0, <<>>, e, handleLNURL(u, lnurltext, opts, e))

\* handleLNURLPayConfirmation(u, msats, data, messageId), part_000:231: the user
\* answered the prompt whose message id keys the cached data.
HandleLNURLPayConfirmation ==
    \E key \in DOMAIN rds, msats \in Msats, messageId \in MessageIds, e \in SettleEnvs :
        Ran("handleLNURLPayConfirmation", key[2], "", FastOpts, msats, rds[key].value, e,
            handleLNURLPayConfirmation(key[2], msats, rds[key].value, messageId, e))

\* The handler returns and its locals are gone.
Return ==
    /\ call # NoCall
    /\ call' = NoCall
    /\ UNCHANGED <<brokerVars, rds, ncalls, helperVars>>

\* handleLNURL on a fixed-amount offer under the threshold, paid at once: the
\* call and its return
HandleLNURLFast ==
    \E e \in FastEnvs :
        /\ call = NoCall
        /\ Effects(handleLNURL(1, "lnurl1aaa", FastOpts, e))
        /\ UNCHANGED call


----------------------------------------------------------------------------
(* The confirmation broker, helpers.go:411-435. The map is a concurrent map:
   Upsert, Get and Remove each run under the lock of the key's shard, so each
   is one step; nothing holds the lock between two of them. A channel is
   named by the goroutine that made it. *)

\* waitingPaymentSuccesses.Upsert(hash, wait, cb), helpers.go:413-421
Upsert(reg, hash, wait) ==
    [h \in DOMAIN reg \cup {hash} |->
        IF h = hash
        THEN IF hash \in DOMAIN reg THEN Append(reg[hash], wait) ELSE <<wait>>
        ELSE reg[h]]

\* Remove that drops every entry
RemoveAll(reg, hash) == [h \in {} |-> <<>>]

\* waitingPaymentSuccesses.Remove(hash), helpers.go:433
Remove(reg, hash) == [h \in DOMAIN reg \ {hash} |-> reg[h]]

\* A receiver is parked on the unbuffered channel ch: the only case in which
\* the send of select { case ch <- preimage: default: } is taken.
Receiving(ch) == gpc[ch] = "receiving"

\* part_000:307, the call waitPaymentSuccess(hash): the channel is made and
\* appended to the hash's waiters, and the call returns.
GoWait(g) ==
    /\ gpc[g] = "spawned"
    /\ waitingPaymentSuccesses' = Upsert(waitingPaymentSuccesses, gcap[g].hash, g)
    /\ gpc' = [gpc EXCEPT ![g] = "registered"]
    /\ UNCHANGED <<gcap, gpreimage, gout, gtried, rpc, rarg, rchans, ri, rseen, roverlap,
                   rds, call, ncalls, helperVars>>

\* GoReceive that does not wait for a value
GoReceiveWithoutWaiting(g) ==
    /\ gpc[g] = "registered"
    /\ gpc' = [gpc EXCEPT ![g] = "got"]
    /\ UNCHANGED <<waitingPaymentSuccesses, gcap, gpreimage, gout, gtried, rpc, rarg, rchans,
                   ri, rseen, roverlap, rds, call, ncalls, helperVars>>

\* part_000:307, the receive <-wait: no sender waits on the channel, so the
\* goroutine parks.
GoReceive(g) ==
    /\ gpc[g] = "registered"
    /\ gpc' = [gpc EXCEPT ![g] = "receiving"]
    /\ UNCHANGED <<waitingPaymentSuccesses, gcap, gpreimage, gout, gtried, rpc, rarg, rchans,
                   ri, rseen, roverlap, rds, call, ncalls, helperVars>>

\* part_000:308-330: the raw metadata is sent as a document
GoSendFile(g) ==
    /\ gpc[g] = "got"
    /\ gout' = [gout EXCEPT ![g] = Append(@,
                  [op |-> "document", name |-> gcap[g].encodedLnurl,
                   bytes |-> gcap[g].metadata, Domain |-> urlHost(gcap[g].callback)])]
    /\ gpc' = [gpc EXCEPT ![g] = IF gcap[g].SuccessAction # {} THEN "filed" ELSE "done"]
    /\ UNCHANGED <<waitingPaymentSuccesses, gcap, gpreimage, gtried, rpc, rarg, rchans, ri,
                   rseen, roverlap, rds, call, ncalls, helperVars>>

\* part_000:333-355: the success action, after the sleep
GoNotifySuccess(g) ==
    /\ gpc[g] = "filed"
    /\ gout' = [gout EXCEPT ![g] = Append(@,
                  [op |-> "notify", kind |-> "LNURLPAYSUCCESS",
                   Domain |-> urlHost(gcap[g].callback), replyTo |-> gcap[g].messageId])]
    /\ gpc' = [gpc EXCEPT ![g] = "done"]
    /\ UNCHANGED <<waitingPaymentSuccesses, gcap, gpreimage, gtried, rpc, rarg, rchans, ri,
                   rseen, roverlap, rds, call, ncalls, helperVars>>

\* ResolveGet that leaves an empty waiter list behind when the hash has none
ResolveGetLeavesEntry(r) ==
    /\ rpc[r] = "idle"
    /\ \A x \in Resolves : x < r => rpc[x] # "idle"
    /\ \E hash \in Hashes, preimage \in Preimages :
        /\ rarg' = [rarg EXCEPT ![r] = [hash |-> hash, preimage |-> preimage]]
        /\ IF hash \in DOMAIN waitingPaymentSuccesses
           THEN /\ rchans' = [rchans EXCEPT ![r] = waitingPaymentSuccesses[hash]]
                /\ ri' = [ri EXCEPT ![r] = 1]
                /\ rseen' = [rseen EXCEPT ![r] =
                               {ch \in Range(waitingPaymentSuccesses[hash]) : Receiving(ch)}]
                /\ rpc' = [rpc EXCEPT ![r] = "loop"]
                /\ UNCHANGED waitingPaymentSuccesses
           ELSE /\ rpc' = [rpc EXCEPT ![r] = "done"]
                /\ waitingPaymentSuccesses' =
                       [h \in DOMAIN waitingPaymentSuccesses \cup {hash} |->
                          IF h = hash THEN <<>> ELSE waitingPaymentSuccesses[h]]
                /\ UNCHANGED <<rchans, ri, rseen>>
        /\ roverlap' = [x \in Resolves |->
                          IF x = r
                          THEN \E y \in Resolves \ {r} :
                                  rpc[y] = "loop" /\ rarg[y].hash = hash
                          ELSE roverlap[x] \/ (rpc[x] = "loop" /\ rarg[x].hash = hash)]
    /\ UNCHANGED <<gpc, gcap, gpreimage, gout, gtried, rds, call, ncalls, helperVars>>

\* resolveWaitingPaymentSuccess(hash, preimage), helpers.go:426: the Get. With
\* no entry for the hash the call is over.
ResolveGet(r) ==
    /\ rpc[r] = "idle"
    /\ \A x \in Resolves : x < r => rpc[x] # "idle"
    /\ \E hash \in Hashes, preimage \in Preimages :
        /\ rarg' = [rarg EXCEPT ![r] = [hash |-> hash, preimage |-> preimage]]
        /\ IF hash \in DOMAIN waitingPaymentSuccesses
           THEN /\ rchans' = [rchans EXCEPT ![r] = waitingPaymentSuccesses[hash]]
                /\ ri' = [ri EXCEPT ![r] = 1]
                /\ rseen' = [rseen EXCEPT ![r] =
                               {ch \in Range(waitingPaymentSuccesses[hash]) : Receiving(ch)}]
                /\ rpc' = [rpc EXCEPT ![r] = "loop"]
           ELSE /\ rpc' = [rpc EXCEPT ![r] = "done"]
                /\ UNCHANGED <<rchans, ri, rseen>>
        /\ roverlap' = [x \in Resolves |->
                          IF x = r
                          THEN \E y \in Resolves \ {r} :
                                  rpc[y] = "loop" /\ rarg[y].hash = hash
                          ELSE roverlap[x] \/ (rpc[x] = "loop" /\ rarg[x].hash = hash)]
    /\ UNCHANGED <<waitingPaymentSuccesses, gpc, gcap, gpreimage, gout, gtried,
                   rds, call, ncalls, helperVars>>

\* ResolveSend that stops sending after the first channel of the slice
ResolveSendFirstOnly(r) ==
    /\ rpc[r] = "loop"
    /\ ri[r] <= Len(rchans[r])
    /\ LET ch == rchans[r][ri[r]]
       IN  /\ IF Receiving(ch) /\ ri[r] = 1
              THEN /\ gpc' = [gpc EXCEPT ![ch] = "got"]
                   /\ gpreimage' = [gpreimage EXCEPT ![ch] = rarg[r].preimage]
              ELSE UNCHANGED <<gpc, gpreimage>>
           /\ gtried' = [gtried EXCEPT ![ch] = TRUE]
    /\ ri' = [ri EXCEPT ![r] = @ + 1]
    /\ UNCHANGED <<waitingPaymentSuccesses, gcap, gout, rpc, rarg, rchans, rseen, roverlap,
                   rds, call, ncalls, helperVars>>

\* ResolveSend with a plain send, ch <- preimage, without the select's default
ResolveSendBlocking(r) ==
    /\ rpc[r] = "loop"
    /\ ri[r] <= Len(rchans[r])
    /\ LET ch == rchans[r][ri[r]]
       IN  /\ Receiving(ch)
           /\ gpc' = [gpc EXCEPT ![ch] = "got"]
           /\ gpreimage' = [gpreimage EXCEPT ![ch] = rarg[r].preimage]
           /\ gtried' = [gtried EXCEPT ![ch] = TRUE]
    /\ ri' = [ri EXCEPT ![r] = @ + 1]
    /\ UNCHANGED <<waitingPaymentSuccesses, gcap, gout, rpc, rarg, rchans, rseen, roverlap,
                   rds, call, ncalls, helperVars>>

\* helpers.go:427-432, one turn of the loop: the select sends if the receiver
\* is parked and takes the default otherwise.
ResolveSend(r) ==
    /\ rpc[r] = "loop"
    /\ ri[r] <= Len(rchans[r])
    /\ LET ch == rchans[r][ri[r]]
       IN  /\ IF Receiving(ch)
              THEN /\ gpc' = [gpc EXCEPT ![ch] = "got"]
                   /\ gpreimage' = [gpreimage EXCEPT ![ch] = rarg[r].preimage]
              ELSE UNCHANGED <<gpc, gpreimage>>
           /\ gtried' = [gtried EXCEPT ![ch] = TRUE]
    /\ ri' = [ri EXCEPT ![r] = @ + 1]
    /\ UNCHANGED <<waitingPaymentSuccesses, gcap, gout, rpc, rarg, rchans, rseen, roverlap,
                   rds, call, ncalls, helperVars>>

\* helpers.go:433, after the loop
ResolveRemove(r) ==
    /\ rpc[r] = "loop"
    /\ ri[r] > Len(rchans[r])
    /\ waitingPaymentSuccesses' = Remove(waitingPaymentSuccesses, rarg[r].hash)
    /\ rpc' = [rpc EXCEPT ![r] = "done"]
    /\ UNCHANGED <<gpc, gcap, gpreimage, gout, gtried, rarg, rchans, ri, rseen, roverlap,
                   rds, call, ncalls, helperVars>>

\* resolveWaitingPaymentSuccess returns and its locals are gone.
ResolveReturn(r) ==
    /\ rpc[r] = "done"
    /\ rpc' = [rpc EXCEPT ![r] = "idle"]
    /\ rarg' = [rarg EXCEPT ![r] = NoArg]
    /\ rchans' = [rchans EXCEPT ![r] = <<>>]
    /\ ri' = [ri EXCEPT ![r] = 0]
    /\ rseen' = [rseen EXCEPT ![r] = {}]
    /\ roverlap' = [roverlap EXCEPT ![r] = FALSE]
    /\ UNCHANGED <<waitingPaymentSuccesses, gpc, gcap, gpreimage, gout, gtried,
                   rds, call, ncalls, helperVars>>

----------------------------------------------------------------------------
(* helpers.go:437-452 and 477-487: checkProxyBalance and getBalance, which
   both assign the package-level err. One call of each runs at a time; each
   read and each write of err is a step. *)

\* helpers.go:440-444: the query. When it fails proxybalance keeps its zero.
ProxyQuery ==
    /\ ppc = "idle"
    /\ \E failed \in BOOLEAN :
        /\ err' = IF failed THEN "query failed" ELSE nil
        /\ proxybalance' = IF failed THEN 0 ELSE proxyBalance(ledger)
        /\ pquery' = [failed |-> failed, rows |-> ledger]
    /\ ppc' = "queried"
    /\ UNCHANGED <<ledger, pres, poverlap, bpc, nwrites, rateVars,
                   brokerVars, rds, call, ncalls>>

\* helpers.go:445-451: the tests of err and of proxybalance
ProxyTest ==
    /\ ppc = "queried"
    /\ IF err # nil
       THEN ppc' = "failing" /\ UNCHANGED pres
       ELSE /\ ppc' = "returned"
            /\ pres' = IF proxybalance # 0 THEN "proxy balance isn't 0" ELSE nil
    /\ UNCHANGED <<ledger, err, proxybalance, pquery, poverlap, bpc, nwrites, rateVars,
                   brokerVars, rds, call, ncalls>>

\* helpers.go:446: return err, which reads err again
ProxyReturnErr ==
    /\ ppc = "failing"
    /\ pres' = err
    /\ ppc' = "returned"
    /\ UNCHANGED <<ledger, err, proxybalance, pquery, poverlap, bpc, nwrites, rateVars,
                   brokerVars, rds, call, ncalls>>

\* the caller has the result and the call's locals are gone
ProxyDone ==
    /\ ppc = "returned"
    /\ ppc' = "idle"
    /\ proxybalance' = 0
    /\ pres' = "none"
    /\ pquery' = NoQuery
    /\ poverlap' = FALSE
    /\ UNCHANGED <<ledger, err, bpc, nwrites, rateVars, brokerVars, rds, call, ncalls>>

\* helpers.go:479: getBalance's query assigns err: nil, or an error such as
\* sql.ErrNoRows
BalQuery ==
    /\ bpc = "idle"
    /\ \E outcome \in {nil, "no rows"} : err' = outcome
    /\ poverlap' = (poverlap \/ ppc \in {"queried", "failing"})
    /\ bpc' = "queried"
    /\ UNCHANGED <<ledger, ppc, proxybalance, pres, pquery, nwrites, rateVars,
                   brokerVars, rds, call, ncalls>>

\* helpers.go:480-486: getBalance tests err and returns; the balance it
\* returns is no part of the state
BalReturn ==
    /\ bpc = "queried"
    /\ bpc' = "idle"
    /\ UNCHANGED <<ledger, err, ppc, proxybalance, pres, pquery, poverlap, nwrites, rateVars,
                   brokerVars, rds, call, ncalls>>

\* another transaction changes the amount or the fees of one row by one
LedgerWrite ==
    /\ nwrites < MaxWrites
    /\ nwrites' = nwrites + 1
    /\ \E i \in DOMAIN ledger, col \in {"amount", "fees"}, d \in {0 - 1, 1} :
         ledger' = [ledger EXCEPT ![i][col] = @ + d]
    /\ UNCHANGED <<err, ppc, proxybalance, pres, pquery, poverlap, bpc, rateVars,
                   brokerVars, rds, call, ncalls>>

----------------------------------------------------------------------------
(* helpers.go:185-211: getDollarRate, one call at a time *)

\* the clock advances
Tick ==
    /\ now < MaxNow
    /\ now' = now + 1
    /\ UNCHANGED <<dollarPrice, dpc, dfetches, dres, dfailed, proxyVars,
                   brokerVars, rds, call, ncalls>>

\* getDollarRate is called
RateCall ==
    /\ dpc = "idle"
    /\ dpc' = "begin"
    /\ UNCHANGED <<dollarPrice, now, dfetches, dres, dfailed, proxyVars,
                   brokerVars, rds, call, ncalls>>

\* helpers.go:186-190, the label begin: a positive rate younger than an hour
\* is returned
RateBegin ==
    /\ dpc = "begin"
    /\ IF Positive(dollarPrice.rate) /\ dollarPrice.lastUpdate > now - Hour
       THEN /\ dres' = [rate |-> dollarPrice.rate, err |-> nil]
            /\ dpc' = "returned"
       ELSE /\ dpc' = "fetch"
            /\ UNCHANGED dres
    /\ UNCHANGED <<dollarPrice, now, dfetches, dfailed, proxyVars,
                   brokerVars, rds, call, ncalls>>

\* helpers.go:192-210: the fetch. The results are named: a bare return gives
\* the zero rate with whatever err holds, which is nil for a status >= 300.
RateFetch ==
    /\ dpc = "fetch"
    /\ dfetches < MaxFetches
    /\ dfetches' = dfetches + 1
    /\ \E resp \in TickerResponses :
        LET btcrate == ParseFloat(resp.last)
            fail(e) == /\ dres' = [rate |-> FloatZero, err |-> e]
                       /\ dpc' = "returned"
                       /\ dfailed' = TRUE
                       /\ UNCHANGED dollarPrice
        IN  IF resp.err THEN fail("transport")
            ELSE IF resp.status >= 300 THEN fail(nil)
            ELSE IF resp.readErr THEN fail("read")
            ELSE IF btcrate.err THEN fail("parse")
            ELSE /\ dollarPrice' = [rate |-> rateOf(btcrate), lastUpdate |-> now]
                 /\ dpc' = "begin"
                 /\ UNCHANGED <<dres, dfailed>>
    /\ UNCHANGED <<now, proxyVars, brokerVars, rds, call, ncalls>>

\* the caller has the result and the call's locals are gone
RateReturn ==
    /\ dpc = "returned"
    /\ dpc' = "idle"
    /\ dfetches' = 0
    /\ dres' = NoRes
    /\ dfailed' = FALSE
    /\ UNCHANGED <<dollarPrice, now, proxyVars, brokerVars, rds, call, ncalls>>

----------------------------------------------------------------------------
(* The specifications *)

GoStep == \E g \in Goroutines : GoWait(g) \/ GoReceive(g) \/ GoSendFile(g) \/ GoNotifySuccess(g)
ResolveStep == \E r \in Resolves : ResolveSend(r) \/ ResolveRemove(r) \/ ResolveReturn(r)
ResolveCall == \E r \in Resolves : ResolveGet(r)

\* The handlers, on every input of the model.
Next == HandleLNURL \/ HandleLNURLPayConfirmation \/ Return

Spec == Init /\ [][Next]_vars

\* The broker: settlements that submit their payment, the goroutines they
\* start, and the calls of resolveWaitingPaymentSuccess.
NextBroker == HandleLNURLFast \/ GoStep \/ ResolveCall \/ ResolveStep

SpecBroker == Init /\ [][NextBroker]_vars

\* The Go scheduler runs every goroutine that can run: a started goroutine
\* and a started resolveWaitingPaymentSuccess take their steps. Nothing makes
\* a handler or resolveWaitingPaymentSuccess be called.
FairBroker ==
    /\ SpecBroker
    /\ \A g \in Goroutines :
          WF_vars(GoWait(g) \/ GoReceive(g) \/ GoSendFile(g) \/ GoNotifySuccess(g))
    /\ \A r \in Resolves :
          WF_vars(ResolveSend(r) \/ ResolveRemove(r) \/ ResolveReturn(r))

\* checkProxyBalance and getBalance over a ledger that other transactions write
NextProxy ==
    \/ ProxyQuery \/ ProxyTest \/ ProxyReturnErr \/ ProxyDone
    \/ BalQuery \/ BalReturn \/ LedgerWrite

SpecProxy == InitLedger /\ [][NextProxy]_vars

\* getDollarRate as time passes
NextRate == Tick \/ RateCall \/ RateBegin \/ RateFetch \/ RateReturn

SpecRate == Init /\ [][NextRate]_vars


----------------------------------------------------------------------------
(* The handlers' claims, over the run held in call *)

Notifications(trace) == SelectSeq(trace, LAMBDA ev : ev.op = "notify")
LastEvent(trace) == trace[Len(trace)]

\* the run asked the pay callback for an invoice: the settlement flow ran
AskedInvoice(trace) ==
    \E i \in 1..Len(trace) : trace[i].op = "http" /\ "amount" \in DOMAIN trace[i].query
RequestedAmount(trace) ==
    LET i == CHOOSE j \in 1..Len(trace) :
                 trace[j].op = "http" /\ "amount" \in DOMAIN trace[j].query
    IN  trace[i].query.amount
\* the metadata the settlement flow was given
SettledMetadata ==
    IF call.fn = "handleLNURLPayConfirmation" THEN call.data.metadata
    ELSE call.env.fetch.EncodedMetadata
\* the callback answered with an invoice that decodes
GotInvoice ==
    /\ AskedInvoice(call.trace)
    /\ ~call.env.cb.err /\ call.env.cb.status < 300 /\ call.env.cb.Status # "ERROR"
    /\ call.env.cb.PR.wellformed
InvoiceMismatch ==
    \/ call.env.cb.PR.hhash # sha256Sum256(SettledMetadata)
    \/ call.env.cb.PR.msat # RequestedAmount(call.trace)

\* C1: when the invoice the callback returned does not carry the SHA-256 of the
\* metadata as its description hash, or is not for the requested amount, the
\* run ends with one ERROR notification and neither calls payInvoice nor
\* starts the confirmation goroutine.
C1_MismatchIsRejected ==
    (GotInvoice /\ InvoiceMismatch) =>
        /\ ~HasOp(call.trace, "payInvoice")
        /\ ~HasOp(call.trace, "go")
        /\ Len(Notifications(call.trace)) = 1
        /\ LastEvent(call.trace).op = "notify"
        /\ LastEvent(call.trace).kind = "ERROR"

\* C1's case: an invoice of the right hash and a larger amount than asked was
\* returned and refused.
C1_Witness ==
    /\ GotInvoice
    /\ call.env.cb.PR.hhash = sha256Sum256(SettledMetadata)
    /\ call.env.cb.PR.msat > RequestedAmount(call.trace)
    /\ LastEvent(call.trace) = EvNotify("ERROR", [Err |-> "Got invoice with wrong amount."])

\* handleLNURL on a pay offer went straight to the settlement flow
IsPayRun == call.fn = "handleLNURL" /\ call.env.fetch.tag = "payRequest"
TookFastPath == AskedInvoice(call.trace) /\ ~HasOp(call.trace, "tgsend")

\* C9 as stated: with a threshold given, the fast path is taken exactly when
\* MaxSendable = MinSendable and that amount is below threshold + 3000.
C9_AsStated ==
    (IsPayRun /\ call.opts.payWithoutPromptIf # {}) =>
        (TookFastPath <=>
            /\ call.env.fetch.MaxSendable = call.env.fetch.MinSendable
            /\ \E th \in call.opts.payWithoutPromptIf :
                   call.env.fetch.MaxSendable < th + 3000)

\* C9, amended: the fast path is taken exactly when MaxSendable = MinSendable,
\* that amount is positive, a threshold is given and the amount is below
\* threshold + 3000; an offer with MaxSendable # MinSendable never takes it.
C9_FastPath ==
    IsPayRun =>
        /\ TookFastPath <=>
            /\ call.env.fetch.MaxSendable = call.env.fetch.MinSendable
            /\ call.env.fetch.MaxSendable > 0
            /\ \E th \in call.opts.payWithoutPromptIf :
                   call.env.fetch.MaxSendable < th + 3000
        /\ call.env.fetch.MaxSendable # call.env.fetch.MinSendable => ~TookFastPath

\* C9's case: a fixed amount of exactly threshold + 3000 was prompted for.
C9_Witness ==
    /\ IsPayRun
    /\ call.opts.payWithoutPromptIf = {0}
    /\ call.env.fetch.MaxSendable = 3000 /\ call.env.fetch.MinSendable = 3000
    /\ HasOp(call.trace, "tgsend")
    /\ ~TookFastPath

\* the run failed: one of the failures of handleLNURL and of the settlement flow
RunFailed ==
    /\ call.fn # "none"
    /\ \/ call.fn = "handleLNURL" /\ call.env.fetch.tag \in {"lnurlerror", "error"}
       \/ call.env.k1 # "ok"
       \/ call.env.mkErr
       \/ /\ HasOp(call.trace, "http")
          /\ call.env.cb.err \/ call.env.cb.status >= 300 \/ call.env.cb.Status = "ERROR"
       \/ AskedInvoice(call.trace) /\ ~call.env.cb.err /\ call.env.cb.status < 300
            /\ call.env.cb.Status # "ERROR" /\ ~call.env.cb.PR.wellformed
       \/ GotInvoice /\ InvoiceMismatch
       \/ call.env.sendErr
       \/ HasOp(call.trace, "payInvoice") /\ call.env.pay.err

\* C10 as stated: a run that failed sent exactly one notification to the user.
C10_OneNotificationPerFailure ==
    RunFailed => Len(Notifications(call.trace)) = 1

\* a handler has just run: call changes from none to the run
Called == call = NoCall /\ call' # NoCall

\* C11: when payInvoice returns an error, the run ends with an ERROR
\* notification sent as a reply to the processing message, starts no goroutine,
\* leaves the broker's registry as it is and sends no success notification.
C11_PayErrorStopsSettlement ==
    [][(Called /\ HasOp(call'.trace, "payInvoice") /\ call'.env.pay.err) =>
          /\ LastEvent(call'.trace).op = "notify"
          /\ LastEvent(call'.trace).kind = "ERROR"
          /\ LastEvent(call'.trace).replyTo = call'.env.sentId
          /\ \E i \in 1..Len(call'.trace) :
                call'.trace[i].op = "sendMessage" /\ call'.trace[i].id = call'.env.sentId
          /\ ~HasOp(call'.trace, "go")
          /\ \A i \in 1..Len(call'.trace) :
                call'.trace[i].op = "notify" => call'.trace[i].kind # "LNURLPAYSUCCESS"
          /\ UNCHANGED <<gpc, gcap, gout, waitingPaymentSuccesses>>
      ]_vars

\* C11's case: a confirmed prompt whose payment was refused.
C11_Witness ==
    /\ call.fn = "handleLNURLPayConfirmation"
    /\ HasOp(call.trace, "payInvoice") /\ call.env.pay.err
    /\ LastEvent(call.trace).replyTo = call.env.sentId
    /\ \A g \in Goroutines : gpc[g] = "none"

\* C12: when the pay callback answers with status ERROR, the run ends, right
\* after the GET, with the LNURLERROR notification that carries the callback's
\* host and the answer's reason; it sends no processing message, submits no
\* payment, starts no goroutine and leaves the registry as it is, whether or
\* not the answer carries an invoice.
C12_CallbackErrorStopsSettlement ==
    [][(/\ Called
        /\ AskedInvoice(call'.trace)
        /\ ~call'.env.cb.err /\ call'.env.cb.status < 300
        /\ call'.env.cb.Status = "ERROR") =>
          LET n == Len(call'.trace)
          IN  /\ n >= 2
              /\ call'.trace[n - 1].op = "http"
              /\ call'.trace[n] =
                    [op |-> "notify", kind |-> "LNURLERROR", replyTo |-> 0,
                     data |-> [Host |-> urlHost(call'.trace[n - 1].url),
                               Reason |-> call'.env.cb.Reason]]
              /\ ~HasOp(call'.trace, "sendMessage")
              /\ ~HasOp(call'.trace, "payInvoice")
              /\ ~HasOp(call'.trace, "go")
              /\ UNCHANGED <<gpc, gcap, gout, waitingPaymentSuccesses>>
      ]_vars

\* C12's case: the ERROR answer carried an invoice that would have passed the
\* checks, and the run ended with the LNURL error naming a.com.
C12_Witness ==
    /\ AskedInvoice(call.trace)
    /\ call.env.cb = CbErrorInvoice
    /\ RequestedAmount(call.trace) = 1000
    /\ SettledMetadata = "m1"
    /\ LastEvent(call.trace).kind = "LNURLERROR"
    /\ LastEvent(call.trace).data = [Host |-> "a.com", Reason |-> "no balance"]

\* every lnurl-auth offer: any host, challenge and callback
AllAuthParams ==
    [tag : {"login"}, Host : {"a.com", "b.org"}, K1 : {"k1", "k2"}, Callback : Callbacks]

\* the run is an lnurl-auth flow that submitted its signature
IsAuthRun ==
    /\ call.fn = "handleLNURL" /\ call.env.fetch.tag = "login"
    /\ HasOp(call.trace, "http")
\* the key a trace submitted to the callback
SubmittedKey(trace) ==
    LET i == CHOOSE j \in 1..Len(trace) :
                 trace[j].op = "http" /\ "key" \in DOMAIN trace[j].query
    IN  trace[i].query.key
\* the key another auth flow of the user submits, on the offer params
KeyFor(u, params) ==
    SubmittedKey(handleLNURLAuth(u, params, call.opts, [DefaultEnv EXCEPT !.fetch = params]))

\* C13 as stated: every auth flow of the same user submits the same key,
\* whatever the host, the challenge and the callback.
C13_AsStated ==
    IsAuthRun =>
        \A params \in AllAuthParams : KeyFor(call.u, params) = SubmittedKey(call.trace)

\* C13, amended: an auth flow of the same user for the same host submits the
\* same key whatever the challenge and the callback, and one for another host
\* submits another key.
C13_KeyPerHostAndUser ==
    IsAuthRun =>
        \A params \in AllAuthParams :
            /\ params.Host = call.env.fetch.Host
                  => KeyFor(call.u, params) = SubmittedKey(call.trace)
            /\ params.Host # call.env.fetch.Host
                  => KeyFor(call.u, params) # SubmittedKey(call.trace)

\* C13's case: user 1 signed in to a.com with challenge k1; the flows compared
\* with it include another challenge and another callback.
C13_Witness ==
    /\ IsAuthRun
    /\ call.u = 1 /\ call.env.fetch.Host = "a.com" /\ call.env.fetch.K1 = "k1"
    /\ SubmittedKey(call.trace) = KeyFor(1, [tag |-> "login", Host |-> "a.com", K1 |-> "k2",
                                             Callback |-> "https://b.org/cb"])

\* the http requests of a trace
Requests(trace) == SelectSeq(trace, LAMBDA ev : ev.op = "http")

\* C14: the run of the auth flow with loginSilently set and the run without,
\* on the same user, offer and answers, send the same requests; they are the
\* same on every failure, and on success the run without loginSilently has
\* the auth-success notification and the tracking event after the request,
\* and the run with it has nothing.
C14_SilentLoginStillSigns ==
    (call.fn = "handleLNURL" /\ call.env.fetch.tag = "login") =>
        LET with(b) == handleLNURLAuth(call.u, call.env.fetch,
                                       [call.opts EXCEPT !.loginSilently = b], call.env)
            loud == with(FALSE)
            silent == with(TRUE)
            success == /\ call.env.k1 = "ok"
                       /\ ~call.env.cb.err /\ call.env.cb.status < 300
                       /\ call.env.cb.Status # "ERROR"
        IN  /\ call.trace = with(call.opts.loginSilently)
            /\ Requests(loud) = Requests(silent)
            /\ IsAuthRun => /\ Len(Requests(silent)) = 1
                            /\ "sig" \in DOMAIN Requests(silent)[1].query
                            /\ "key" \in DOMAIN Requests(silent)[1].query
            /\ ~success => loud = silent
            /\ success =>
                /\ silent = Requests(silent)
                /\ Len(loud) = Len(silent) + 2
                /\ SubSeq(loud, 1, Len(silent)) = silent
                /\ loud[Len(loud) - 1].op = "notify"
                /\ loud[Len(loud) - 1].kind = "LNURLAUTHSUCCESS"
                /\ loud[Len(loud)].op = "track"

\* C14's case: a silent login that succeeded: the request and nothing else.
C14_Witness ==
    /\ IsAuthRun
    /\ call.opts.loginSilently
    /\ call.env.cb = CbOK
    /\ Len(call.trace) = 1

\* handleLNURL showed the pay prompt
PromptShown == IsPayRun /\ HasOp(call.trace, "tgsend") /\ ~call.env.sendErr

\* C16: after handleLNURL showed a pay prompt, the cache holds, under
\* reply:<user id>:<id of the prompt message>, the object {type: lnurlpay,
\* metadata, url, lnurl} of the offer, with a TTL of one hour.
C16_PromptIsCached ==
    PromptShown =>
        LET key == <<"reply", call.u, call.env.sentId>>
        IN  /\ key \in DOMAIN rds
            /\ rds[key] = [value |-> [type |-> "lnurlpay",
                                      metadata |-> call.env.fetch.EncodedMetadata,
                                      url |-> call.env.fetch.Callback,
                                      lnurl |-> call.lnurltext],
                           ttl |-> 3600]

\* C16's case: the free-text prompt of a variable-amount offer was shown.
C16_Witness ==
    /\ PromptShown
    /\ call.env.fetch.MinSendable # call.env.fetch.MaxSendable
    /\ <<"reply", call.u, call.env.sentId>> \in DOMAIN rds

\* C20: handleLNURL stores for its prompt the callback, the metadata and the
\* lnurl text of the offer it got, and handleLNURLPayConfirmation on a stored
\* object asks that callback for the invoice, refuses an invoice whose
\* description hash is not the SHA-256 of that metadata, and hands that
\* metadata and the lnurl text to the goroutine it starts.
C20_ResumeIsRoundTrip ==
    [][/\ (Called /\ call'.fn = "handleLNURL" /\ HasOp(call'.trace, "rdsSet")) =>
            rds'[<<"reply", call'.u, call'.env.sentId>>].value =
                [type |-> "lnurlpay",
                 metadata |-> Offer(call'.lnurltext).EncodedMetadata,
                 url |-> Offer(call'.lnurltext).Callback,
                 lnurl |-> call'.lnurltext]
       /\ (Called /\ call'.fn = "handleLNURLPayConfirmation") =>
            \E key \in DOMAIN rds :
                LET lnurltext == rds[key].value.lnurl
                    offer == Offer(lnurltext)
                    inv == call'.env.cb.PR
                IN  /\ call'.data = rds[key].value
                    /\ call'.trace[1] = [op |-> "http", url |-> offer.Callback,
                                         query |-> [amount |-> call'.msats]]
                    /\ HasOp(call'.trace, "payInvoice")
                          => inv.hhash = sha256Sum256(offer.EncodedMetadata)
                    /\ \A i \in 1..Len(call'.trace) :
                          call'.trace[i].op = "go" =>
                              /\ call'.trace[i].cap.callback = offer.Callback
                              /\ call'.trace[i].cap.metadata = offer.EncodedMetadata
                              /\ call'.trace[i].cap.encodedLnurl = LNURLEncode(lnurltext)
      ]_vars

\* C20's case: the prompt of the offer behind https://b.org/lnurlp was
\* confirmed and paid.
C20_Witness ==
    /\ call.fn = "handleLNURLPayConfirmation"
    /\ call.data.lnurl = "https://b.org/lnurlp"
    /\ HasOp(call.trace, "go")
    /\ call.trace[1].url = "https://b.org/cb"


----------------------------------------------------------------------------
(* The broker's claims *)

Registered(g) ==
    /\ gcap[g].hash \in DOMAIN waitingPaymentSuccesses
    /\ g \in Range(waitingPaymentSuccesses[gcap[g].hash])
Waiting(g) == gpc[g] \in {"registered", "receiving"}
Received(g) == gpc[g] \in {"got", "filed", "done"}

\* C2 as stated: a waiter that was appended and has not been delivered to is
\* still in the registry, or a resolver's send has been attempted on its channel.
C2_NoWaiterDroppedUntried ==
    \A g \in Goroutines : Waiting(g) => (Registered(g) \/ gtried[g])

\* C3 as stated: a task whose hash was resolved before it called
\* waitPaymentSuccess, or before it started to receive, still receives.
C3_EarlyEventNotLost ==
    \A g \in Goroutines :
        ((gpc[g] \in {"spawned", "registered"}
            /\ \E r \in Resolves : rpc[r] = "done" /\ rarg[r].hash = gcap[g].hash)
          ~> Received(g))

\* C4: when a call of resolveWaitingPaymentSuccess(hash, P) that no other call
\* for the hash overlaps has finished, every receiver that was parked on a
\* channel of the hash when the call looked the hash up has received P.
C4_ParkedReceiversGetP ==
    \A r \in Resolves :
        (rpc[r] = "done" /\ ~roverlap[r]) =>
            \A ch \in rseen[r] : Received(ch) /\ gpreimage[ch] = rarg[r].preimage

\* C4's case: two receivers were parked on the hash and both hold P.
C4_Witness ==
    \E r \in Resolves :
        /\ rpc[r] = "done"
        /\ Cardinality(rseen[r]) = 2
        /\ \A ch \in rseen[r] : gpreimage[ch] = rarg[r].preimage

\* C5 as stated: once two settlements of one hash have started their
\* confirmation goroutines and the hash is resolved, both goroutines receive
\* and the registry holds the channel of neither.
C5_OneResolveUnblocksBoth ==
    \A g1, g2 \in Goroutines : \A r \in Resolves :
        ((/\ g1 # g2
          /\ gpc[g1] # "none" /\ gpc[g2] # "none"
          /\ gcap[g1].hash = gcap[g2].hash
          /\ rpc[r] # "idle" /\ rarg[r].hash = gcap[g1].hash)
         ~> (/\ Received(g1) /\ Received(g2)
             /\ ~Registered(g1) /\ ~Registered(g2)))

\* C6: waitPaymentSuccess can always take its step, a resolver in its loop can
\* always take its next step, the select on a channel nobody is parked on
\* changes no goroutine, and a resolver that found waiters finishes.
C6_BrokerNeverBlocks ==
    /\ [](\A g \in Goroutines : gpc[g] = "spawned" => ENABLED GoWait(g))
    /\ [](\A r \in Resolves :
            rpc[r] = "loop" => ENABLED (ResolveSend(r) \/ ResolveRemove(r)))
    /\ [][\A r \in Resolves :
            (rpc[r] = "loop" /\ ri'[r] = ri[r] + 1 /\ ~Receiving(rchans[r][ri[r]]))
                => UNCHANGED <<gpc, gpreimage>>]_vars
    /\ \A r \in Resolves : (rpc[r] = "loop" ~> rpc[r] = "done")

\* C6's case: a resolver finished after its select found a waiter not parked.
C6_Witness ==
    \E r \in Resolves : \E ch \in Range(rchans[r]) :
        /\ rpc[r] = "done"
        /\ gtried[ch] /\ gpc[ch] = "registered"

\* C7: waitPaymentSuccess leaves an entry for its hash; an entry goes away
\* only in the step that ends a resolve of its hash; and when a resolve ends,
\* its hash has no entry and the entries of the other hashes are as before.
C7_EntryLifetime ==
    [][/\ \A g \in Goroutines :
            (gpc[g] = "spawned" /\ gpc'[g] = "registered")
                => gcap[g].hash \in DOMAIN waitingPaymentSuccesses'
       /\ \A h \in DOMAIN waitingPaymentSuccesses \ DOMAIN waitingPaymentSuccesses' :
            \E r \in Resolves : rpc[r] = "loop" /\ rpc'[r] = "done" /\ rarg[r].hash = h
       /\ \A r \in Resolves :
            (rpc[r] # "done" /\ rpc'[r] = "done") =>
                /\ rarg'[r].hash \notin DOMAIN waitingPaymentSuccesses'
                /\ \A h \in Hashes \ {rarg'[r].hash} :
                      /\ h \in DOMAIN waitingPaymentSuccesses
                            <=> h \in DOMAIN waitingPaymentSuccesses'
                      /\ h \in DOMAIN waitingPaymentSuccesses
                            => waitingPaymentSuccesses'[h] = waitingPaymentSuccesses[h]
      ]_vars

\* C7's case: a resolve ended whose waiters received nothing, while the other
\* hash keeps its entry.
C7_Witness ==
    \E r \in Resolves :
        /\ rpc[r] = "done"
        /\ rchans[r] # <<>>
        /\ \A ch \in Range(rchans[r]) : ~Received(ch)
        /\ rarg[r].hash \notin DOMAIN waitingPaymentSuccesses
        /\ DOMAIN waitingPaymentSuccesses # {}

\* C8: a resolve of a hash that has no entry changes neither the registry nor
\* any goroutine.
C8_ResolveWithoutWaitersIsNoOp ==
    [][\A r \in Resolves :
          (rpc[r] = "idle" /\ rpc'[r] = "done") =>
              UNCHANGED <<waitingPaymentSuccesses, gpc, gpreimage, gout>>]_vars

\* C8's case: a hash without entry was resolved while the other hash has waiters.
C8_Witness ==
    \E r \in Resolves :
        /\ rpc[r] = "done"
        /\ rchans[r] = <<>>
        /\ DOMAIN waitingPaymentSuccesses # {}
        /\ rarg[r].hash \notin DOMAIN waitingPaymentSuccesses

\* C15: a confirmation goroutine sends nothing before it has received a
\* preimage from a resolve of its hash, and it sends the success-action
\* notification only after the metadata document.
C15_DocumentThenSuccessAction ==
    \A g \in Goroutines :
        /\ gout[g] # <<>> => (gpreimage[g] \in Preimages /\ gtried[g])
        /\ \A i \in 1..Len(gout[g]) :
              gout[g][i].op = "notify" =>
                  \E j \in 1..(i - 1) : gout[g][j].op = "document"

\* C15's case: a settlement with a success action sent the document, then
\* the notification.
C15_Witness ==
    \E g \in Goroutines :
        /\ gcap[g].SuccessAction # {}
        /\ Len(gout[g]) = 2
        /\ gout[g][1].op = "document"
        /\ gout[g][2].op = "notify" /\ gout[g][2].kind = "LNURLPAYSUCCESS"

----------------------------------------------------------------------------
(* The claims on checkProxyBalance and getDollarRate *)

\* the sum of amount - fees over the rows
RECURSIVE Net(_)
Net(rows) ==
    IF rows = <<>> THEN 0
    ELSE Head(rows).amount - Head(rows).fees + Net(Tail(rows))

\* the rows are one change of one amount or fee by 1 away from netting to zero
OneOffZero(rows) ==
    \E i \in DOMAIN rows, col \in {"amount", "fees"}, d \in {0 - 1, 1} :
        Net([rows EXCEPT ![i][col] = @ + d]) = 0

\* C17: a call of checkProxyBalance during which no other call assigned err
\* returns nil exactly when its query succeeded and the amounts minus the fees
\* of the rows it read sum to zero (no row: zero); on rows that are one change
\* by 1 away from netting to zero it returns "proxy balance isn't 0".
C17_NilIffQueryOkAndZero ==
    (ppc = "returned" /\ ~poverlap) =>
        /\ pres = nil <=> (~pquery.failed /\ Net(pquery.rows) = 0)
        /\ (~pquery.failed /\ OneOffZero(pquery.rows)) => pres = "proxy balance isn't 0"

\* C17's case: rows that netted to zero, fees included, were changed by 1 and
\* the check then failed.
C17_Witness ==
    /\ ppc = "returned" /\ ~poverlap /\ ~pquery.failed
    /\ nwrites = 1
    /\ pquery.rows = ledger
    /\ OneOffZero(ledger)
    /\ \E i \in DOMAIN ledger : ledger[i].fees > 0
    /\ pres = "proxy balance isn't 0"

\* C18 as stated: a call that found a positive rate older than an hour in the
\* cache and whose one fetch failed returns that rate and no error.
C18_FailedRefreshServesLastRate ==
    (dpc = "returned" /\ dfailed /\ dfetches = 1 /\ Positive(dollarPrice.rate)) =>
        (dres.rate = dollarPrice.rate /\ dres.err = nil)

\* C19 as stated: no call fetches the ticker more than once.
C19_AtMostOneFetch == dfetches <= 1

\* C21 as stated: whatever other calls assign err meanwhile, a call of
\* checkProxyBalance returns an error exactly when its own query failed or the
\* amounts minus the fees of the rows it read do not sum to zero.
C21_ResultDependsOnOwnQueryOnly ==
    ppc = "returned" =>
        (pres # nil <=> (pquery.failed \/ Net(pquery.rows) # 0))

\* C22 as stated: getDollarRate returns no nil error together with a rate
\* that is not positive.
C22_NoNilErrorWithoutRate ==
    dpc = "returned" => ~(dres.err = nil /\ ~Positive(dres.rate))

====
